---- MODULE Spec2Model ----
(***************************************************************************)
(* The two Conan recipes of docker/conan: conanfile.py (AosCoreLibCpp) and *)
(* pkcs11provider-1.0.py (PKCS11Provider).                                 *)
(*                                                                         *)
(* A recipe method is a straight-line sequence of statements.  Each        *)
(* statement is a blocking call: it is called, and then it either returns  *)
(* (its effect takes place, the method goes on to its next statement) or   *)
(* raises (nothing in the recipes catches it, so the invocation ends).     *)
(* The package manager calls the methods one after another (Lifecycle);    *)
(* it may be invoked again after an invocation has ended, and then finds   *)
(* what earlier invocations left in its cache.                             *)
(***************************************************************************)
EXTENDS Naturals, Sequences, FiniteSets, TLC

VARIABLES
    run,        \* number of the current invocation of the package manager
    status,     \* "idle", "running", "failed" (a statement raised), "done"
    pc,         \* [stage, idx]: method of Lifecycle, next statement in it
    inflight,   \* statements called and not yet returned
    log,        \* this invocation's events: call / return / raise
    declared,   \* per recipe: the requirements declared so far
    options,    \* per recipe: the dependency options set so far
    layout,     \* PKCS11Provider's folder layout
    tree,       \* PKCS11Provider's source folder (the git working tree)
    generated,  \* per recipe: generators that have written their files
    builddir,   \* PKCS11Provider's build folder
    packaged,   \* cache: revisions of pkcs11-provider installed as a package
    cache,      \* cache: references of exported recipes
    exportLog   \* the invocations in which an export was performed

vars == <<run, status, pc, inflight, log, declared, options, layout, tree,
          generated, builddir, packaged, cache, exportLog>>

\* Invocations of the package manager that are explored.
MaxRuns == 2

Recipes == {"AosCoreLibCpp", "PKCS11Provider"}

(***************************************************************************)
(* Statements: the calls the recipes make.                                 *)
(***************************************************************************)
Requires(ref) == [op |-> "requires", kind |-> "requires", ref |-> ref]

ToolRequires(ref) == [op |-> "requires", kind |-> "tool_requires", ref |-> ref]

BuildRequires(ref) == [op |-> "requires", kind |-> "build_requires", ref |-> ref]

SetOption(pkg, opt, val) == [op |-> "option", pkg |-> pkg, opt |-> opt, val |-> val]

RunCmd(argv, cwd) == [op |-> "run", argv |-> argv, cwd |-> cwd]

BasicLayout == [op |-> "basic_layout"]

GitClone(url, args, target) ==
    [op |-> "git.clone", url |-> url, args |-> args, target |-> target]

GitCheckout(commit) == [op |-> "git.checkout", commit |-> commit]

Generate(gen) == [op |-> "generate", gen |-> gen]

MesonConfigure == [op |-> "meson.configure"]

MesonBuild == [op |-> "meson.build"]

MesonInstall == [op |-> "meson.install"]

(***************************************************************************)
(* conanfile.py                                                            *)
(***************************************************************************)
recipe_folder == "docker/conan"

\* os.path.join(a, b)
PathJoin(a, b) == a \o "/" \o b

pkcs11path == PathJoin(recipe_folder, "pkcs11provider-1.0.py")

\* f"conan export {pkcs11path} --user user --channel stable", as the shell splits it
ExportCommand == <<"conan", "export", pkcs11path, "--user", "user", "--channel", "stable">>

AosCoreLibCpp_generators == <<Generate("CMakeToolchain"), Generate("CMakeDeps")>>

\* requirements() that exports only what the cache does not hold yet.
AosCoreLibCpp_requirements_cached ==
    << Requires("grpc/1.54.3"),
       Requires("gtest/1.14.0"),
       Requires("libcurl/8.8.0"),
       Requires("openssl/3.2.1"),
       Requires("poco/1.13.2"),
       IF "pkcs11provider/1.0@user/stable" \in cache
       THEN [op |-> "pass"]
       ELSE RunCmd(ExportCommand, recipe_folder),
       Requires("pkcs11provider/1.0@user/stable") >>

AosCoreLibCpp_requirements ==
    << Requires("grpc/1.54.3"),
       Requires("gtest/1.14.0"),
       Requires("libcurl/8.8.0"),
       Requires("openssl/3.2.1"),
       Requires("poco/1.13.2"),
       RunCmd(ExportCommand, recipe_folder),
       Requires("pkcs11provider/1.0@user/stable") >>

AosCoreLibCpp_build_requirements ==
    << ToolRequires("grpc/1.54.3"),
       ToolRequires("gtest/1.14.0"),
       ToolRequires("protobuf/3.21.12") >>

\* configure() that also sets an option of another package.
AosCoreLibCpp_configure_extra ==
    << SetOption("openssl", "no_dso", FALSE),
       SetOption("openssl", "shared", TRUE),
       SetOption("poco", "shared", TRUE) >>

AosCoreLibCpp_configure ==
    << SetOption("openssl", "no_dso", FALSE),
       SetOption("openssl", "shared", TRUE) >>

(***************************************************************************)
(* pkcs11provider-1.0.py                                                   *)
(***************************************************************************)
name == "pkcs11provider"

branch == "main"

revision == "v1.0"

\* The version written like the tag.
version_as_tag == "v1.0"

version == "1.0"

\* self.source_folder, the folder the layout gives the sources
source_folder == "source_folder"

\* requirements() pinning another openssl than the consumer.
PKCS11Provider_requirements_other == << Requires("openssl/3.0.8") >>

PKCS11Provider_requirements == << Requires("openssl/3.2.1") >>

PKCS11Provider_configure == << SetOption("openssl", "shared", TRUE) >>

PKCS11Provider_build_requirements == << BuildRequires("meson/0.64.1") >>

PKCS11Provider_layout == << BasicLayout >>

clone_args == <<"--branch", branch>>

\* source() with its two calls in the wrong order.
PKCS11Provider_source_swapped ==
    << GitCheckout(revision),
       GitClone("https://github.com/latchset/pkcs11-provider.git", clone_args, source_folder) >>

PKCS11Provider_source ==
    << GitClone("https://github.com/latchset/pkcs11-provider.git", clone_args, source_folder),
       GitCheckout(revision) >>

PKCS11Provider_generate ==
    << Generate("VirtualBuildEnv"), Generate("PkgConfigDeps"), Generate("MesonToolchain") >>

PKCS11Provider_build == << MesonConfigure, MesonBuild >>

\* package() that installs nothing.
PKCS11Provider_package_noinstall == << >>

PKCS11Provider_package == << MesonInstall >>

\* The statements of a recipe's method.
Body(recipe, method) ==
    CASE recipe = "AosCoreLibCpp" /\ method = "configure" -> AosCoreLibCpp_configure
      [] recipe = "AosCoreLibCpp" /\ method = "requirements" -> AosCoreLibCpp_requirements
      [] recipe = "AosCoreLibCpp" /\ method = "build_requirements" -> AosCoreLibCpp_build_requirements
      [] recipe = "AosCoreLibCpp" /\ method = "generators" -> AosCoreLibCpp_generators
      [] recipe = "PKCS11Provider" /\ method = "configure" -> PKCS11Provider_configure
      [] recipe = "PKCS11Provider" /\ method = "requirements" -> PKCS11Provider_requirements
      [] recipe = "PKCS11Provider" /\ method = "build_requirements" -> PKCS11Provider_build_requirements
      [] recipe = "PKCS11Provider" /\ method = "layout" -> PKCS11Provider_layout
      [] recipe = "PKCS11Provider" /\ method = "source" -> PKCS11Provider_source
      [] recipe = "PKCS11Provider" /\ method = "generate" -> PKCS11Provider_generate
      [] recipe = "PKCS11Provider" /\ method = "build" -> PKCS11Provider_build
      [] recipe = "PKCS11Provider" /\ method = "package" -> PKCS11Provider_package
      [] OTHER -> << >>

(***************************************************************************)
(* What the calls do.                                                      *)
(***************************************************************************)
\* A reference as the package manager writes it: name/version[@user/channel].
Reference(n, v, user, channel) ==
    IF user = "" THEN n \o "/" \o v
    ELSE n \o "/" \o v \o "@" \o user \o "/" \o channel

\* The recipe a file holds: its name and version attributes.
LoadRecipe(path) ==
    IF path = PathJoin(recipe_folder, "pkcs11provider-1.0.py")
    THEN [found |-> TRUE, name |-> name, version |-> version]
    ELSE [found |-> FALSE, name |-> "", version |-> ""]

\* The value that follows flag in a command line ("" when the flag is absent).
Flag(argv, flag) ==
    IF \E k \in 1..(Len(argv) - 1) : argv[k] = flag
    THEN argv[(CHOOSE k \in 1..(Len(argv) - 1) : argv[k] = flag) + 1]
    ELSE ""

\* The reference "conan export <path> --user U --channel C" stores in the cache.
ExportedRef(argv) ==
    Reference(LoadRecipe(argv[3]).name, LoadRecipe(argv[3]).version,
              Flag(argv, "--user"), Flag(argv, "--channel"))

\* The names, versions, users and channels a reference is read against.
PackageNames ==
    {"grpc", "gtest", "libcurl", "openssl", "poco", "protobuf", "meson", "pkcs11provider"}

PackageVersions ==
    {"1.54.3", "1.14.0", "8.8.0", "3.2.1", "3.0.8", "1.13.2", "3.21.12", "0.64.1", "1.0", "v1.0"}

ParsedRefs ==
    [name : PackageNames, version : PackageVersions, user : {"", "user"},
     channel : {"", "stable"}]

\* A reference string read back into its parts: name/version[@user/channel].
ParseRef(ref) ==
    CHOOSE p \in ParsedRefs :
        /\ Reference(p.name, p.version, p.user, p.channel) = ref
        /\ p.user = "" <=> p.channel = ""

NoTree == [url |-> "", head |-> ""]

EmptyBuild == [state |-> "empty", head |-> ""]

\* Calls into git, meson, the generators and the shell can fail; declarations
\* and assignments cannot.
Fallible(s) ==
    s.op \in {"run", "git.clone", "git.checkout", "generate",
              "meson.configure", "meson.build", "meson.install"}

\* What a call needs to succeed; without it the call can only raise.
CanSucceed(s) ==
    CASE s.op = "run" ->
            /\ Len(s.argv) >= 3 /\ s.argv[1] = "conan" /\ s.argv[2] = "export"
            /\ LoadRecipe(s.argv[3]).found
      [] s.op = "git.clone" -> tree = NoTree
      [] s.op = "git.checkout" -> tree # NoTree
      [] s.op = "meson.configure" -> tree # NoTree
      [] s.op = "meson.build" -> builddir.state = "configured"
      [] s.op = "meson.install" -> builddir.state = "built"
      [] OTHER -> TRUE

\* The order in which one invocation of the package manager calls the methods:
\* the graph of the consumer, the graph of the exported dependency, the build
\* of the dependency from source, the consumer's generators.
Lifecycle ==
    << [recipe |-> "AosCoreLibCpp", method |-> "configure"],
       [recipe |-> "AosCoreLibCpp", method |-> "requirements"],
       [recipe |-> "AosCoreLibCpp", method |-> "build_requirements"],
       [recipe |-> "PKCS11Provider", method |-> "configure"],
       [recipe |-> "PKCS11Provider", method |-> "requirements"],
       [recipe |-> "PKCS11Provider", method |-> "build_requirements"],
       [recipe |-> "PKCS11Provider", method |-> "layout"],
       [recipe |-> "PKCS11Provider", method |-> "source"],
       [recipe |-> "PKCS11Provider", method |-> "generate"],
       [recipe |-> "PKCS11Provider", method |-> "build"],
       [recipe |-> "PKCS11Provider", method |-> "package"],
       [recipe |-> "AosCoreLibCpp", method |-> "generators"] >>

\* The stages that build PKCS11Provider from source.
SourceStage ==
    CHOOSE k \in 1..Len(Lifecycle) :
        Lifecycle[k] = [recipe |-> "PKCS11Provider", method |-> "source"]

PackageStage ==
    CHOOSE k \in 1..Len(Lifecycle) :
        Lifecycle[k] = [recipe |-> "PKCS11Provider", method |-> "package"]

CurrentBody == Body(Lifecycle[pc.stage].recipe, Lifecycle[pc.stage].method)

Event(ev, id) ==
    [ev |-> ev, recipe |-> Lifecycle[id.stage].recipe,
     method |-> Lifecycle[id.stage].method, idx |-> id.idx,
     stmt |-> Body(Lifecycle[id.stage].recipe, Lifecycle[id.stage].method)[id.idx]]

(***************************************************************************)
(* One invocation of the package manager.                                  *)
(***************************************************************************)
Init ==
    /\ run = 0
    /\ status = "idle"
    /\ pc = [stage |-> 1, idx |-> 1]
    /\ inflight = {}
    /\ log = << >>
    /\ declared = [r \in Recipes |-> {}]
    /\ options = [r \in Recipes |-> {}]
    /\ layout = "unset"
    /\ tree = NoTree
    /\ generated = [r \in Recipes |-> {}]
    /\ builddir = EmptyBuild
    /\ packaged = {}
    /\ cache = {}
    /\ exportLog = << >>

\* The package manager is invoked: the recipes are loaded afresh, the source
\* and build folders start empty, the cache is what earlier invocations left.
StartRun ==
    /\ status \in {"idle", "failed", "done"}
    /\ run < MaxRuns
    /\ run' = run + 1
    /\ status' = "running"
    /\ pc' = [stage |-> 1, idx |-> 1]
    /\ inflight' = {}
    /\ log' = << >>
    /\ declared' = [r \in Recipes |-> {}]
    /\ options' = [r \in Recipes |-> {}]
    /\ layout' = "unset"
    /\ tree' = NoTree
    /\ generated' = [r \in Recipes |-> {}]
    /\ builddir' = EmptyBuild
    /\ UNCHANGED <<packaged, cache, exportLog>>

\* Call, not waiting for the statement called before to return.
Call_nowait ==
    LET id == [stage |-> pc.stage, idx |-> pc.idx + Cardinality(inflight)]
    IN  /\ status = "running"
        /\ Cardinality(inflight) < 2
        /\ id.idx <= Len(CurrentBody)
        /\ inflight' = inflight \cup {id}
        /\ log' = Append(log, Event("call", id))
        /\ UNCHANGED <<run, status, pc, declared, options, layout, tree, generated,
                       builddir, packaged, cache, exportLog>>

\* The method's next statement is called; the method waits for it.
Call ==
    /\ status = "running"
    /\ inflight = {}
    /\ pc.idx <= Len(CurrentBody)
    /\ inflight' = {pc}
    /\ log' = Append(log, Event("call", pc))
    /\ UNCHANGED <<run, status, pc, declared, options, layout, tree, generated,
                   builddir, packaged, cache, exportLog>>

\* A called statement returns: its effect is there, the method goes on.
Return ==
    \E id \in inflight :
        LET s == Event("return", id).stmt
            r == Lifecycle[id.stage].recipe
        IN  /\ CanSucceed(s)
            /\ inflight' = inflight \ {id}
            /\ pc' = [pc EXCEPT !.idx = @ + 1]
            /\ log' = Append(log, Event("return", id))
            /\ declared' = IF s.op = "requires"
                           THEN [declared EXCEPT ![r] = @ \cup {[kind |-> s.kind, ref |-> s.ref]}]
                           ELSE declared
            /\ options' = IF s.op = "option"
                          THEN [options EXCEPT ![r] =
                                   {o \in @ : ~(o.pkg = s.pkg /\ o.opt = s.opt)}
                                   \cup {[pkg |-> s.pkg, opt |-> s.opt, val |-> s.val]}]
                          ELSE options
            /\ layout' = IF s.op = "basic_layout" THEN "basic_layout" ELSE layout
            /\ tree' = CASE s.op = "git.clone" ->
                                [url |-> s.url, head |-> Flag(s.args, "--branch")]
                         [] s.op = "git.checkout" -> [tree EXCEPT !.head = s.commit]
                         [] OTHER -> tree
            /\ generated' = IF s.op = "generate"
                            THEN [generated EXCEPT ![r] = @ \cup {s.gen}]
                            ELSE generated
            /\ builddir' = CASE s.op = "meson.configure" ->
                                    [state |-> "configured", head |-> tree.head]
                             [] s.op = "meson.build" -> [builddir EXCEPT !.state = "built"]
                             [] OTHER -> builddir
            /\ packaged' = IF s.op = "meson.install"
                           THEN packaged \cup {builddir.head}
                           ELSE packaged
            /\ cache' = IF s.op = "run" THEN cache \cup {ExportedRef(s.argv)} ELSE cache
            /\ exportLog' = IF s.op = "run" THEN Append(exportLog, run) ELSE exportLog
            /\ UNCHANGED <<run, status>>

\* Raise, with the exception caught and the statement tried again.
Raise_retry ==
    \E id \in inflight :
        /\ Fallible(Event("raise", id).stmt)
        /\ Len(log) < 8 * Len(Lifecycle)
        /\ inflight' = {}
        /\ log' = Append(log, Event("raise", id))
        /\ UNCHANGED <<run, status, pc, declared, options, layout, tree, generated,
                       builddir, packaged, cache, exportLog>>

\* A called statement raises: no method catches it, the invocation ends.
Raise ==
    \E id \in inflight :
        /\ Fallible(Event("raise", id).stmt)
        /\ status' = "failed"
        /\ inflight' = {}
        /\ log' = Append(log, Event("raise", id))
        /\ UNCHANGED <<run, pc, declared, options, layout, tree, generated,
                       builddir, packaged, cache, exportLog>>

\* The method has returned: the package manager calls the next one.
NextMethod ==
    /\ status = "running"
    /\ inflight = {}
    /\ pc.idx > Len(CurrentBody)
    /\ pc.stage < Len(Lifecycle)
    /\ pc' = [stage |-> pc.stage + 1, idx |-> 1]
    /\ UNCHANGED <<run, status, inflight, log, declared, options, layout, tree,
                   generated, builddir, packaged, cache, exportLog>>

\* The cache already holds a package of the dependency: the package manager
\* may use it instead of building from source.
SkipBuild ==
    /\ status = "running"
    /\ inflight = {}
    /\ pc = [stage |-> SourceStage, idx |-> 1]
    /\ packaged # {}
    /\ pc' = [stage |-> PackageStage + 1, idx |-> 1]
    /\ UNCHANGED <<run, status, inflight, log, declared, options, layout, tree,
                   generated, builddir, packaged, cache, exportLog>>

\* The last method has returned: the invocation ends.
Finish ==
    /\ status = "running"
    /\ inflight = {}
    /\ pc.idx > Len(CurrentBody)
    /\ pc.stage = Len(Lifecycle)
    /\ status' = "done"
    /\ UNCHANGED <<run, pc, inflight, log, declared, options, layout, tree,
                   generated, builddir, packaged, cache, exportLog>>

Next ==
    \/ StartRun
    \/ Call
    \/ Return
    \/ Raise
    \/ NextMethod
    \/ SkipBuild
    \/ Finish

Spec == Init /\ [][Next]_vars

\* Every call made returns or raises, and the package manager goes on calling.
FairSpec == Spec /\ WF_vars(Next)

(***************************************************************************)
(* Reading the log of the current invocation.                              *)
(***************************************************************************)
Happened(i, ev, s) == log[i].ev = ev /\ log[i].stmt = s

ReturnedBefore(i, s) == \E j \in 1..(i - 1) : Happened(j, "return", s)

HasReturned(s) == \E j \in 1..Len(log) : Happened(j, "return", s)

CalledOp(i, op) == log[i].ev = "call" /\ log[i].stmt.op = op

TheClone ==
    GitClone("https://github.com/latchset/pkcs11-provider.git", <<"--branch", "main">>,
             source_folder)

\* C1: in the pkcs11provider recipe the steps happen in the order clone ->
\* checkout -> configure -> build -> install.  Every clone is of
\* https://github.com/latchset/pkcs11-provider.git with --branch main; every
\* checkout is of v1.0 and is called only after that clone has returned;
\* meson.configure and meson.build are called only after the checkout of v1.0
\* has returned, meson.build only after meson.configure has returned, and
\* meson.install only after meson.build has returned.  Clone and checkout are
\* calls of source(), configure and build of build(), install of package().
C1_StepOrder ==
    \A i \in 1..Len(log) :
        /\ CalledOp(i, "git.clone") =>
              /\ log[i].stmt = TheClone
              /\ log[i].method = "source"
        /\ CalledOp(i, "git.checkout") =>
              /\ log[i].stmt.commit = "v1.0"
              /\ log[i].method = "source"
              /\ ReturnedBefore(i, TheClone)
        /\ CalledOp(i, "meson.configure") =>
              /\ log[i].method = "build"
              /\ ReturnedBefore(i, GitCheckout("v1.0"))
        /\ CalledOp(i, "meson.build") =>
              /\ log[i].method = "build"
              /\ ReturnedBefore(i, MesonConfigure)
              /\ ReturnedBefore(i, GitCheckout("v1.0"))
        /\ CalledOp(i, "meson.install") =>
              /\ log[i].method = "package"
              /\ ReturnedBefore(i, MesonBuild)

\* The whole sequence has run: v1.0 was cloned, checked out, built, installed.
C1_Witness ==
    /\ HasReturned(TheClone)
    /\ HasReturned(GitCheckout("v1.0"))
    /\ HasReturned(MesonInstall)
    /\ "v1.0" \in packaged

(***************************************************************************)
(* The statements of an event's recipe method, and those called so far.    *)
(***************************************************************************)
StepOf(e) == <<e.recipe, e.method, e.idx>>

CallsOf(step) == {i \in 1..Len(log) : log[i].ev = "call" /\ StepOf(log[i]) = step}

Raises == {i \in 1..Len(log) : log[i].ev = "raise"}

TheExport == RunCmd(ExportCommand, recipe_folder)

\* C2: the recipes define no retry and no recovery.  A statement that raises
\* ends the invocation as failed: the raise is the last event of the
\* invocation (no later statement of the method, and no statement at all, is
\* called after it), no statement is called a second time, and the invocation
\* is failed exactly when a statement has raised.  After a failed clone no
\* checkout is called; after a failed export pkcs11provider/1.0@user/stable
\* is not required.
C2_NoRetryNoRecovery ==
    /\ \A i \in Raises : i = Len(log) /\ status = "failed" /\ inflight = {}
    /\ status = "failed" => Raises # {}
    /\ status = "failed" => ~ENABLED Call
    /\ \A i \in 1..Len(log) : Cardinality(CallsOf(StepOf(log[i]))) <= 1
    /\ \A i \in Raises :
          /\ log[i].stmt.op = "git.clone" =>
                \A j \in 1..Len(log) : ~CalledOp(j, "git.checkout")
          /\ log[i].stmt = TheExport =>
                \A d \in declared["AosCoreLibCpp"] :
                    d.ref # "pkcs11provider/1.0@user/stable"

\* A step in the middle of a method has failed: meson.configure raised after
\* the sources were cloned and checked out.
C2_Witness ==
    /\ status = "failed"
    /\ Len(log) > 0
    /\ log[Len(log)].ev = "raise"
    /\ log[Len(log)].stmt = MesonConfigure
    /\ HasReturned(GitCheckout("v1.0"))

\* The state a statement writes.
Writes(id) ==
    LET s == Event("call", id).stmt
        r == Lifecycle[id.stage].recipe
    IN  CASE s.op = "requires" -> {<<"requires", r>>}
          [] s.op = "option" -> {<<"options", r>>}
          [] s.op = "basic_layout" -> {<<"folders", r>>}
          [] s.op = "run" -> {<<"cache", "recipes">>}
          [] s.op = "git.clone" -> {<<"source_folder", r>>}
          [] s.op = "git.checkout" -> {<<"source_folder", r>>}
          [] s.op = "generate" -> {<<"generators_folder", r>>}
          [] s.op = "meson.configure" -> {<<"build_folder", r>>}
          [] s.op = "meson.build" -> {<<"build_folder", r>>}
          [] s.op = "meson.install" -> {<<"cache", "packages">>}
          [] OTHER -> {}

SourceStarted == \E i \in 1..Len(log) : CalledOp(i, "git.clone")

InstallDone == HasReturned(MesonInstall)

\* C4: the clone/checkout/build/install sequence completes.  Once source() has
\* called git clone, and as long as every call made returns (none raises and
\* none hangs), the invocation reaches the state in which meson.install has
\* returned.
C4_SequenceCompletes == SourceStarted ~> (InstallDone \/ status = "failed")

\* The sequence has just completed: meson.install is the last event.
C4_Witness ==
    /\ status = "running"
    /\ Len(log) > 0
    /\ Happened(Len(log), "return", MesonInstall)
    /\ builddir = [state |-> "built", head |-> "v1.0"]

AosRequirements ==
    {"grpc/1.54.3", "gtest/1.14.0", "libcurl/8.8.0", "openssl/3.2.1", "poco/1.13.2",
     "pkcs11provider/1.0@user/stable"}

AosOptions ==
    {[pkg |-> "openssl", opt |-> "no_dso", val |-> FALSE],
     [pkg |-> "openssl", opt |-> "shared", val |-> TRUE]}

RequiredBy(r) == {d.ref : d \in {x \in declared[r] : x.kind = "requires"}}

MethodReturned(r, m) ==
    \E i \in 1..Len(log) :
        /\ log[i].ev = "return" /\ log[i].recipe = r /\ log[i].method = m
        /\ log[i].idx = Len(Body(r, m))

\* C5: AosCoreLibCpp never requires anything but grpc/1.54.3, gtest/1.14.0,
\* libcurl/8.8.0, openssl/3.2.1, poco/1.13.2 and pkcs11provider/1.0@user/stable,
\* and requires exactly these once requirements() has returned; it never sets
\* an option other than openssl's no_dso = False and shared = True, and has
\* set exactly these two once configure() has returned.
C5_RequirementsAndOptions ==
    /\ RequiredBy("AosCoreLibCpp") \subseteq AosRequirements
    /\ MethodReturned("AosCoreLibCpp", "requirements") =>
          RequiredBy("AosCoreLibCpp") = AosRequirements
    /\ options["AosCoreLibCpp"] \subseteq AosOptions
    /\ MethodReturned("AosCoreLibCpp", "configure") =>
          options["AosCoreLibCpp"] = AosOptions

\* Both methods have returned, with six requirements and two options.
C5_Witness ==
    /\ MethodReturned("AosCoreLibCpp", "requirements")
    /\ MethodReturned("AosCoreLibCpp", "configure")
    /\ Cardinality(RequiredBy("AosCoreLibCpp")) = 6
    /\ Cardinality(options["AosCoreLibCpp"]) = 2

ThePkcsRequire == Requires("pkcs11provider/1.0@user/stable")

ExportsIn(n) == {k \in 1..Len(exportLog) : exportLog[k] = n}

\* C6: in requirements() the nested recipe is exported before it is required.
\* pkcs11provider/1.0@user/stable is required only after the export command
\* (conan export <recipe folder>/pkcs11provider-1.0.py --user user --channel
\* stable, run in the recipe folder) has returned in the same call, and the
\* export is run again in every call of requirements(): an invocation that has
\* declared the requirement has performed exactly one export of its own,
\* whatever the cache held before.
C6_ExportBeforeRequire ==
    \A i \in 1..Len(log) :
        Happened(i, "call", ThePkcsRequire) =>
           /\ ReturnedBefore(i, TheExport)
           /\ Cardinality(ExportsIn(run)) = 1

\* The second call of requirements() has exported again and then required.
C6_Witness ==
    /\ run = 2
    /\ exportLog = <<1, 2>>
    /\ "pkcs11provider/1.0@user/stable" \in RequiredBy("AosCoreLibCpp")

\* C7: the reference the export produces is the reference AosCoreLibCpp
\* requires.  The cache never holds an exported recipe under another reference
\* than pkcs11provider/1.0@user/stable, holds it once the export has returned,
\* and every requirement AosCoreLibCpp has declared with a user and channel is
\* one the cache holds.
C7_ExportedIsRequired ==
    /\ \A c \in cache : c = "pkcs11provider/1.0@user/stable"
    /\ HasReturned(TheExport) => cache # {}
    /\ \A ref \in RequiredBy("AosCoreLibCpp") : ParseRef(ref).user # "" => ref \in cache

\* The export has returned and the requirement has been declared.
C7_Witness ==
    /\ HasReturned(TheExport)
    /\ HasReturned(ThePkcsRequire)
    /\ cache = {"pkcs11provider/1.0@user/stable"}

Declared(r) == {[kind |-> d.kind, pkg |-> ParseRef(d.ref)] : d \in declared[r]}

\* C8: the two recipes agree on every dependency they both declare.  Any
\* package that both require has the same version in both, and openssl, once
\* both have required it, is at 3.2.1 in both; any option that both set has the
\* same value in both, and openssl's shared, once both have set it, is True in
\* both; within AosCoreLibCpp a package declared both as a requirement and as a
\* tool requirement has the same version in both declarations (grpc 1.54.3,
\* gtest 1.14.0).
C8_RecipesAgree ==
    /\ \A a \in Declared("AosCoreLibCpp") : \A b \in Declared("PKCS11Provider") :
          a.pkg.name = b.pkg.name => a.pkg.version = b.pkg.version
    /\ \A a \in options["AosCoreLibCpp"] : \A b \in options["PKCS11Provider"] :
          (a.pkg = b.pkg /\ a.opt = b.opt) => a.val = b.val
    /\ \A a \in Declared("AosCoreLibCpp") : \A b \in Declared("AosCoreLibCpp") :
          a.pkg.name = b.pkg.name => a.pkg.version = b.pkg.version
    /\ MethodReturned("PKCS11Provider", "requirements") =>
          \A r \in Recipes : \E d \in Declared(r) :
              d.kind = "requires" /\ d.pkg.name = "openssl" /\ d.pkg.version = "3.2.1"
    /\ MethodReturned("PKCS11Provider", "configure") =>
          \A r \in Recipes : [pkg |-> "openssl", opt |-> "shared", val |-> TRUE] \in options[r]
    /\ MethodReturned("AosCoreLibCpp", "build_requirements") =>
          \A k \in {"requires", "tool_requires"} :
              /\ \E d \in Declared("AosCoreLibCpp") :
                    d.kind = k /\ d.pkg.name = "grpc" /\ d.pkg.version = "1.54.3"
              /\ \E d \in Declared("AosCoreLibCpp") :
                    d.kind = k /\ d.pkg.name = "gtest" /\ d.pkg.version = "1.14.0"

\* Both recipes have declared their requirements and set their options.
C8_Witness ==
    /\ MethodReturned("PKCS11Provider", "requirements")
    /\ MethodReturned("PKCS11Provider", "configure")
    /\ MethodReturned("AosCoreLibCpp", "build_requirements")
    /\ \E a \in Declared("AosCoreLibCpp") : \E b \in Declared("PKCS11Provider") :
          a.pkg.name = b.pkg.name
    /\ \E a \in options["AosCoreLibCpp"] : \E b \in options["PKCS11Provider"] :
          a.pkg = b.pkg /\ a.opt = b.opt

====
